---- MODULE Spec2Model ----
(***************************************************************************)
(* The toadplatform backend and bundler cores: the lazily initialised      *)
(* process-wide CONFIG, MetadataService::get_chain, get_entrypoint_abi and *)
(* get_entry_point_user_operation_payload, run by a main thread and by     *)
(* concurrent caller threads.                                              *)
(***************************************************************************)
EXTENDS Integers, Sequences, FiniteSets, TLC

VARIABLES
    crate,      \* which binary this process is: "backend" or "bundler"
    file,       \* what Settings::new() finds on disk: [ok |-> FALSE] or [ok |-> TRUE, value |-> settings]
    process,    \* "running" or "aborted"
    once,       \* state of the Once guarding CONFIG: incomplete, running, complete, poisoned
    CONFIG,     \* the lazy_static value: {} before construction, {settings} after
    initCount,  \* how many times the CONFIG initialiser has been started
    server,     \* api_server: "stopped" or "serving"
    pc,         \* per thread: program position
    lazy,       \* per thread: "none", "initializing" (runs the initialiser) or "waiting" (blocked on the Once)
    call,       \* per thread: the call in progress
    result,     \* per thread: what the call produced
    network,    \* the connection handles on which a remote call has been issued
    pool        \* the UserOperation records the upstream handler may hand over

vars == <<crate, file, process, once, CONFIG, initCount, server, pc, lazy, call, result, network, pool>>

----------------------------------------------------------------------------
(* Bounds *)

NumChains == 2      \* chain names that may occur in the configuration and in requests
SrcBits == 4        \* width of a source integer field, standing in for 64
MaxBytesLen == 2    \* longest byte payload

----------------------------------------------------------------------------
(* Configuration values *)

ChainNames == <<"ethereum", "polygon", "goerli", "sepolia">>

Names == {ChainNames[i] : i \in 1..NumChains}

ChainConfigs ==
    { [currency |-> "ETH",   entrypoint_address |-> "0xABCD"],
      [currency |-> "MATIC", entrypoint_address |-> "0x5FF1"] }

ChainTables == UNION {[D -> ChainConfigs] : D \in SUBSET Names}

SettingsValues == [current_chain : Names, chains : ChainTables]

Files == {[ok |-> FALSE]} \cup {[ok |-> TRUE, value |-> s] : s \in SettingsValues}

Callers == {"t1", "t2"}

Threads == {"main"} \cup Callers

\* the Arc<Provider<Http>> a caller holds
Provider(t) == [provider_of |-> t]

NoCall == [op |-> "none"]

NoResult == [kind |-> "none"]

PanicResult == [kind |-> "panic"]

----------------------------------------------------------------------------
(* UserOperation records *)

IntFields ==
    {"nonce", "call_gas_limit", "verification_gas_limit", "pre_verification_gas",
     "max_fee_per_gas", "max_priority_fee_per_gas"}

SrcBytesFields == {"init_code", "calldata", "signature", "paymaster_and_data"}

\* every value a SrcBits-wide field can hold, signed or unsigned
SrcInts == (0 - 2^(SrcBits - 1)) .. (2^SrcBits - 1)

SrcMax == 2^SrcBits - 1

Bytes == {0, 255}

ByteSeqs == UNION {[1..n -> Bytes] : n \in 0..MaxBytesLen}

BaseOp ==
    [ sender |-> "0x00a1",
      nonce |-> 1,
      init_code |-> <<>>,
      calldata |-> <<0>>,
      call_gas_limit |-> 2,
      verification_gas_limit |-> 3,
      pre_verification_gas |-> 4,
      max_fee_per_gas |-> 5,
      max_priority_fee_per_gas |-> 6,
      signature |-> <<255>>,
      paymaster_and_data |-> <<0, 255>> ]

UserOps ==
    { [[BaseOp EXCEPT ![f] = v] EXCEPT ![g] = b] :
        f \in IntFields, v \in SrcInts, g \in SrcBytesFields, b \in ByteSeqs }

SmallPool == {BaseOp, [BaseOp EXCEPT !.nonce = -1]}

\* U256 is four limbs, least significant first, each as wide as a source field
U256_from_u64(v) == <<v % 2^SrcBits, 0, 0, 0>>

U256_value(u) ==
    u[1] + u[2] * 2^SrcBits + u[3] * 2^(2 * SrcBits) + u[4] * 2^(3 * SrcBits)

U256_low_u64(u) == u[1]

\* nonce cut to half the source width before widening
get_entry_point_user_operation_payload_Truncating(user_op) ==
    IF \E f \in IntFields : user_op[f] < 0
    THEN PanicResult
    ELSE [ kind |-> "value",
           value |->
             [ sender |-> user_op.sender,
               nonce |-> U256_from_u64(user_op.nonce % 2^(SrcBits \div 2)),
               init_code |-> user_op.init_code,
               call_data |-> user_op.calldata,
               call_gas_limit |-> U256_from_u64(user_op.call_gas_limit),
               verification_gas_limit |-> U256_from_u64(user_op.verification_gas_limit),
               pre_verification_gas |-> U256_from_u64(user_op.pre_verification_gas),
               max_fee_per_gas |-> U256_from_u64(user_op.max_fee_per_gas),
               max_priority_fee_per_gas |-> U256_from_u64(user_op.max_priority_fee_per_gas),
               signature |-> user_op.signature,
               paymaster_and_data |-> user_op.paymaster_and_data ] ]

\* nonce offset by a process-wide submission count
get_entry_point_user_operation_payload_Shared(user_op) ==
    IF \E f \in IntFields : user_op[f] < 0
    THEN PanicResult
    ELSE [ kind |-> "value",
           value |->
             [ sender |-> user_op.sender,
               nonce |-> U256_from_u64(user_op.nonce + Cardinality(network)),
               init_code |-> user_op.init_code,
               call_data |-> user_op.calldata,
               call_gas_limit |-> U256_from_u64(user_op.call_gas_limit),
               verification_gas_limit |-> U256_from_u64(user_op.verification_gas_limit),
               pre_verification_gas |-> U256_from_u64(user_op.pre_verification_gas),
               max_fee_per_gas |-> U256_from_u64(user_op.max_fee_per_gas),
               max_priority_fee_per_gas |-> U256_from_u64(user_op.max_priority_fee_per_gas),
               signature |-> user_op.signature,
               paymaster_and_data |-> user_op.paymaster_and_data ] ]

\* U256::from of a negative value panics; the function has no error result
get_entry_point_user_operation_payload(user_op) ==
    IF \E f \in IntFields : user_op[f] < 0
    THEN PanicResult
    ELSE [ kind |-> "value",
           value |->
             [ sender |-> user_op.sender,
               nonce |-> U256_from_u64(user_op.nonce),
               init_code |-> user_op.init_code,
               call_data |-> user_op.calldata,
               call_gas_limit |-> U256_from_u64(user_op.call_gas_limit),
               verification_gas_limit |-> U256_from_u64(user_op.verification_gas_limit),
               pre_verification_gas |-> U256_from_u64(user_op.pre_verification_gas),
               max_fee_per_gas |-> U256_from_u64(user_op.max_fee_per_gas),
               max_priority_fee_per_gas |-> U256_from_u64(user_op.max_priority_fee_per_gas),
               signature |-> user_op.signature,
               paymaster_and_data |-> user_op.paymaster_and_data ] ]

----------------------------------------------------------------------------
(* Functions reading CONFIG; cfg is the constructed Settings value *)

\* currency of whichever chain the table lists first
get_chain_AnyChain(cfg) ==
    IF cfg.current_chain \in DOMAIN cfg.chains
    THEN [ kind |-> "Ok",
           value |-> [ chain |-> cfg.current_chain,
                       currency |-> cfg.chains[CHOOSE n \in DOMAIN cfg.chains :
                                        \A m \in DOMAIN cfg.chains :
                                            \E i, j \in 1..Len(ChainNames) :
                                                ChainNames[i] = n /\ ChainNames[j] = m /\ i <= j].currency ] ]
    ELSE PanicResult

\* HashMap indexing panics on a missing key; Err is never constructed
get_chain(cfg) ==
    IF cfg.current_chain \in DOMAIN cfg.chains
    THEN [ kind |-> "Ok",
           value |-> [ chain |-> cfg.current_chain,
                       currency |-> cfg.chains[cfg.current_chain].currency ] ]
    ELSE PanicResult

\* binds to the active chain's entrypoint instead of the argument's
get_entrypoint_abi_ActiveChain(cfg, current_chain, client) ==
    IF current_chain \in DOMAIN cfg.chains /\ cfg.current_chain \in DOMAIN cfg.chains
    THEN [ kind |-> "value",
           value |-> [ address |-> cfg.chains[cfg.current_chain].entrypoint_address,
                       client |-> client ] ]
    ELSE PanicResult

get_entrypoint_abi(cfg, current_chain, client) ==
    IF current_chain \in DOMAIN cfg.chains
    THEN [ kind |-> "value",
           value |-> [ address |-> cfg.chains[current_chain].entrypoint_address,
                       client |-> client ] ]
    ELSE PanicResult

----------------------------------------------------------------------------
(* Threads *)

Init ==
    /\ crate \in {"backend", "bundler"}
    /\ file \in Files
    /\ process = "running"
    /\ once = "incomplete"
    /\ CONFIG = {}
    /\ initCount = 0
    /\ server = "stopped"
    /\ pc = [t \in Threads |->
                IF t = "main" THEN (IF crate = "backend" THEN "line20" ELSE "elsewhere")
                ELSE "idle"]
    /\ lazy = [t \in Threads |-> "none"]
    /\ call = [t \in Threads |-> NoCall]
    /\ result = [t \in Threads |-> NoResult]
    /\ network = {}
    /\ pool = SmallPool

\* a panic on the main thread ends the process; elsewhere it ends the call
Panic(t) ==
    /\ pc' = [pc EXCEPT ![t] = "panicked"]
    /\ lazy' = [lazy EXCEPT ![t] = "none"]
    /\ result' = [result EXCEPT ![t] = PanicResult]
    /\ process' = IF t = "main" THEN "aborted" ELSE process

Finish(t, r) ==
    IF r.kind = "panic"
    THEN Panic(t)
    ELSE /\ pc' = [pc EXCEPT ![t] = "returned"]
         /\ result' = [result EXCEPT ![t] = r]
         /\ UNCHANGED <<lazy, process>>

\* thread t stands at an expression that dereferences CONFIG
AtDeref(t) ==
    /\ process = "running"
    /\ lazy[t] = "none"
    /\ \/ t = "main" /\ pc[t] \in {"line21", "line22"}
       \/ t \in Callers /\ pc[t] = "called"
                        /\ call[t].op \in {"get_chain", "get_entrypoint_abi"}

\* an initialiser started although another one is already running
LazyInitBegin_Racy(t) ==
    /\ AtDeref(t)
    /\ once \in {"incomplete", "running"}
    /\ initCount < Cardinality(Threads)
    /\ once' = "running"
    /\ initCount' = initCount + 1
    /\ lazy' = [lazy EXCEPT ![t] = "initializing"]
    /\ UNCHANGED <<crate, file, process, CONFIG, server, pc, call, result, network, pool>>

LazyInitBegin(t) ==
    /\ AtDeref(t)
    /\ once = "incomplete"
    /\ once' = "running"
    /\ initCount' = initCount + 1
    /\ lazy' = [lazy EXCEPT ![t] = "initializing"]
    /\ UNCHANGED <<crate, file, process, CONFIG, server, pc, call, result, network, pool>>

LazyInitEnd(t) ==
    /\ process = "running"
    /\ lazy[t] = "initializing"
    /\ IF file.ok
       THEN /\ CONFIG' = {file.value}
            /\ once' = "complete"
            /\ lazy' = [lazy EXCEPT ![t] = "none"]
            /\ UNCHANGED <<process, pc, result>>
       ELSE /\ once' = "poisoned"
            /\ Panic(t)
            /\ UNCHANGED CONFIG
    /\ UNCHANGED <<crate, file, initCount, server, call, network, pool>>

LazyWait(t) ==
    /\ AtDeref(t)
    /\ once = "running"
    /\ lazy' = [lazy EXCEPT ![t] = "waiting"]
    /\ UNCHANGED <<crate, file, process, once, CONFIG, initCount, server, pc, call, result, network, pool>>

LazyWake(t) ==
    /\ process = "running"
    /\ lazy[t] = "waiting"
    /\ once # "running"
    /\ lazy' = [lazy EXCEPT ![t] = "none"]
    /\ UNCHANGED <<crate, file, process, once, CONFIG, initCount, server, pc, call, result, network, pool>>

LazyPoisoned(t) ==
    /\ AtDeref(t)
    /\ once = "poisoned"
    /\ Panic(t)
    /\ UNCHANGED <<crate, file, once, CONFIG, initCount, server, call, network, pool>>

MainStart ==
    /\ process = "running"
    /\ pc["main"] = "line20"
    /\ pc' = [pc EXCEPT !["main"] = "line21"]
    /\ UNCHANGED <<crate, file, process, once, CONFIG, initCount, server, lazy, call, result, network, pool>>

MainInitServices ==
    /\ AtDeref("main")
    /\ pc["main"] = "line21"
    /\ once = "complete"
    /\ pc' = [pc EXCEPT !["main"] = "line22"]
    /\ UNCHANGED <<crate, file, process, once, CONFIG, initCount, server, lazy, call, result, network, pool>>

MainApiServer ==
    /\ AtDeref("main")
    /\ pc["main"] = "line22"
    /\ once = "complete"
    /\ server' = "serving"
    /\ pc' = [pc EXCEPT !["main"] = "line26"]
    /\ UNCHANGED <<crate, file, process, once, CONFIG, initCount, lazy, call, result, network, pool>>

\* a main that starts the server without having read CONFIG
main_LazyConfig ==
    \/ MainStart
    \/ /\ process = "running"
       /\ pc["main"] = "line21"
       /\ lazy["main"] = "none"
       /\ pc' = [pc EXCEPT !["main"] = "line22"]
       /\ UNCHANGED <<crate, file, process, once, CONFIG, initCount, server, lazy, call, result, network, pool>>
    \/ /\ process = "running"
       /\ pc["main"] = "line22"
       /\ lazy["main"] = "none"
       /\ server' = "serving"
       /\ pc' = [pc EXCEPT !["main"] = "line26"]
       /\ UNCHANGED <<crate, file, process, once, CONFIG, initCount, lazy, call, result, network, pool>>

main ==
    \/ MainStart
    \/ MainInitServices
    \/ MainApiServer

Invoke_get_chain(t) ==
    /\ process = "running"
    /\ crate = "backend"
    /\ server = "serving"
    /\ pc[t] = "idle"
    /\ pc' = [pc EXCEPT ![t] = "called"]
    /\ call' = [call EXCEPT ![t] = [op |-> "get_chain"]]
    /\ UNCHANGED <<crate, file, process, once, CONFIG, initCount, server, lazy, result, network, pool>>

Invoke_get_entrypoint_abi(t) ==
    /\ process = "running"
    /\ crate = "bundler"
    /\ pc[t] = "idle"
    /\ \E name \in Names :
          call' = [call EXCEPT ![t] =
                      [op |-> "get_entrypoint_abi", current_chain |-> name, client |-> Provider(t)]]
    /\ pc' = [pc EXCEPT ![t] = "called"]
    /\ UNCHANGED <<crate, file, process, once, CONFIG, initCount, server, lazy, result, network, pool>>

Invoke_payload(t) ==
    /\ process = "running"
    /\ crate = "bundler"
    /\ pc[t] = "idle"
    /\ \E user_op \in pool :
          call' = [call EXCEPT ![t] =
                      [op |-> "get_entry_point_user_operation_payload", user_op |-> user_op]]
    /\ pc' = [pc EXCEPT ![t] = "called"]
    /\ UNCHANGED <<crate, file, process, once, CONFIG, initCount, server, lazy, result, network, pool>>

Exec_get_chain(t) ==
    /\ AtDeref(t)
    /\ call[t].op = "get_chain"
    /\ once = "complete"
    /\ \E cfg \in CONFIG : Finish(t, get_chain(cfg))
    /\ UNCHANGED <<crate, file, once, CONFIG, initCount, server, call, network, pool>>

Exec_get_entrypoint_abi(t) ==
    /\ AtDeref(t)
    /\ call[t].op = "get_entrypoint_abi"
    /\ once = "complete"
    /\ \E cfg \in CONFIG :
          Finish(t, get_entrypoint_abi(cfg, call[t].current_chain, call[t].client))
    /\ UNCHANGED <<crate, file, once, CONFIG, initCount, server, call, network, pool>>

Exec_payload(t) ==
    /\ process = "running"
    /\ pc[t] = "called"
    /\ call[t].op = "get_entry_point_user_operation_payload"
    /\ Finish(t, get_entry_point_user_operation_payload(call[t].user_op))
    /\ UNCHANGED <<crate, file, once, CONFIG, initCount, server, call, network, pool>>

\* the caller drops the result
Return(t) ==
    /\ process = "running"
    /\ pc[t] = "returned"
    /\ pc' = [pc EXCEPT ![t] = "idle"]
    /\ call' = [call EXCEPT ![t] = NoCall]
    /\ result' = [result EXCEPT ![t] = NoResult]
    /\ UNCHANGED <<crate, file, process, once, CONFIG, initCount, server, lazy, network, pool>>

\* the caller issues a contract call through the bound client
Submit(t) ==
    /\ process = "running"
    /\ pc[t] = "returned"
    /\ call[t].op = "get_entrypoint_abi"
    /\ network' = network \cup {result[t].value.client}
    /\ pc' = [pc EXCEPT ![t] = "idle"]
    /\ call' = [call EXCEPT ![t] = NoCall]
    /\ result' = [result EXCEPT ![t] = NoResult]
    /\ UNCHANGED <<crate, file, process, once, CONFIG, initCount, server, lazy, pool>>

Next ==
    \/ main
    \/ \E t \in Threads : LazyInitBegin(t)
    \/ \E t \in Threads : LazyInitEnd(t)
    \/ \E t \in Threads : LazyWait(t)
    \/ \E t \in Threads : LazyWake(t)
    \/ \E t \in Threads : LazyPoisoned(t)
    \/ \E t \in Callers : Invoke_get_chain(t)
    \/ \E t \in Callers : Invoke_get_entrypoint_abi(t)
    \/ \E t \in Callers : Invoke_payload(t)
    \/ \E t \in Callers : Exec_get_chain(t)
    \/ \E t \in Callers : Exec_get_entrypoint_abi(t)
    \/ \E t \in Callers : Exec_payload(t)
    \/ \E t \in Callers : Return(t)
    \/ \E t \in Callers : Submit(t)

Spec == Init /\ [][Next]_vars

\* the bundler with one UserOperation under translation, drawn from UserOps
InitCodec ==
    /\ crate = "bundler"
    /\ file = [ok |-> TRUE,
               value |-> [current_chain |-> ChainNames[1],
                          chains |-> [n \in {ChainNames[1]} |->
                                        [currency |-> "ETH", entrypoint_address |-> "0xABCD"]]]]
    /\ process = "running"
    /\ once = "incomplete"
    /\ CONFIG = {}
    /\ initCount = 0
    /\ server = "stopped"
    /\ pc = [t \in Threads |-> IF t = "main" THEN "elsewhere" ELSE "idle"]
    /\ lazy = [t \in Threads |-> "none"]
    /\ call = [t \in Threads |-> NoCall]
    /\ result = [t \in Threads |-> NoResult]
    /\ network = {}
    /\ pool \in {{user_op} : user_op \in UserOps}

NextCodec ==
    \/ \E t \in Callers : Invoke_payload(t)
    \/ \E t \in Callers : Exec_payload(t)
    \/ \E t \in Callers : Return(t)

SpecCodec == InitCodec /\ [][NextCodec]_vars

----------------------------------------------------------------------------
(* Properties *)

Finished(t) == pc[t] \in {"returned", "panicked"}

IsOp(t, op) == call[t].op = op

UnknownChain == [kind |-> "Err", error |-> "UnknownChain"]

InvalidFieldValue == [kind |-> "Err", error |-> "InvalidFieldValue"]

\* thread t completes the body of a call to op in this step
BodyStep(t, op) ==
    /\ pc[t] = "called"
    /\ lazy[t] = "none"
    /\ IsOp(t, op)
    /\ pc'[t] \in {"returned", "panicked"}

\* C1: a lookup of a configured chain name yields the configured currency and
\* entrypoint address, and a lookup of an unconfigured name fails with an
\* UnknownChain error returned to the caller.
C1_LookupTypedResult ==
    \A t \in Callers :
        (once = "complete" /\ Finished(t) /\ (IsOp(t, "get_chain") \/ IsOp(t, "get_entrypoint_abi")))
        => LET name == IF IsOp(t, "get_chain") THEN file.value.current_chain
                       ELSE call[t].current_chain
           IN  IF name \in DOMAIN file.value.chains
               THEN /\ pc[t] = "returned"
                    /\ IF IsOp(t, "get_chain")
                       THEN result[t].value.currency = file.value.chains[name].currency
                       ELSE result[t].value.address = file.value.chains[name].entrypoint_address
               ELSE result[t] = UnknownChain

ValidOp(user_op) == \A f \in IntFields : 0 <= user_op[f] /\ user_op[f] <= SrcMax

\* C2: for a UserOperation whose integer fields are non-negative and within the
\* source width, the payload's integer fields have exactly the source values
\* (also reduced back to the source width) and its byte fields and sender are
\* the source's, an empty one staying empty.
C2_LosslessTranslation ==
    \A t \in Callers :
        (Finished(t) /\ IsOp(t, "get_entry_point_user_operation_payload")
                     /\ ValidOp(call[t].user_op))
        => LET src == call[t].user_op
               out == result[t]
           IN  /\ pc[t] = "returned"
               /\ out.kind = "value"
               /\ \A f \in IntFields :
                     /\ U256_value(out.value[f]) = src[f]
                     /\ U256_low_u64(out.value[f]) = src[f]
               /\ out.value.sender = src.sender
               /\ out.value.init_code = src.init_code
               /\ out.value.call_data = src.calldata
               /\ out.value.signature = src.signature
               /\ out.value.paymaster_and_data = src.paymaster_and_data

\* a nonce at the maximum of the source width and an empty init_code were translated
C2_Witness ==
    \E t \in Callers :
        /\ pc[t] = "returned"
        /\ IsOp(t, "get_entry_point_user_operation_payload")
        /\ call[t].user_op.nonce = SrcMax
        /\ call[t].user_op.init_code = <<>>
        /\ U256_value(result[t].value.nonce) = SrcMax
        /\ result[t].value.init_code = <<>>

\* C3: a UserOperation with a negative integer field makes the translation
\* fail with an InvalidFieldValue error returned to the caller, and no output
\* record is produced.
C3_NegativeRejectedWithError ==
    \A t \in Callers :
        (Finished(t) /\ IsOp(t, "get_entry_point_user_operation_payload")
                     /\ ~ValidOp(call[t].user_op)
                     /\ \A f \in IntFields : call[t].user_op[f] <= SrcMax)
        => result[t] = InvalidFieldValue

\* C4: when the active chain has no entry in the chain table, get_chain
\* returns an UnknownChain error as its Err result.
C4_ActiveChainMissingIsErr ==
    \A t \in Callers :
        (crate = "backend" /\ once = "complete" /\ Finished(t) /\ IsOp(t, "get_chain")
            /\ file.value.current_chain \notin DOMAIN file.value.chains)
        => /\ pc[t] = "returned"
           /\ result[t] = UnknownChain

\* C5: when the active chain has an entry in the chain table, get_chain
\* returns the active chain name with the currency configured for that chain,
\* and the call leaves the configuration as it was.
C5_ActiveMetadata ==
    /\ [](\A t \in Callers :
            (crate = "backend" /\ once = "complete" /\ Finished(t) /\ IsOp(t, "get_chain")
                /\ file.value.current_chain \in DOMAIN file.value.chains)
            => /\ pc[t] = "returned"
               /\ result[t] =
                    [kind |-> "Ok",
                     value |-> [chain |-> file.value.current_chain,
                                currency |-> file.value.chains[file.value.current_chain].currency]])
    /\ [][\A t \in Callers :
            BodyStep(t, "get_chain") => UNCHANGED <<CONFIG, once, initCount, file, network>>]_vars

\* get_chain returned while the table also holds a chain with another currency
C5_Witness ==
    \E t \in Callers :
        /\ crate = "backend"
        /\ pc[t] = "returned"
        /\ IsOp(t, "get_chain")
        /\ result[t].kind = "Ok"
        /\ \E n \in DOMAIN file.value.chains :
              file.value.chains[n].currency # result[t].value.currency

\* C6: get_entrypoint_abi with a chain name that has no entry fails with an
\* UnknownChain error, and the call issues nothing on the connection handle.
C6_BindUnknownIsErr ==
    [][\A t \in Callers :
          (BodyStep(t, "get_entrypoint_abi")
              /\ \A cfg \in CONFIG : call[t].current_chain \notin DOMAIN cfg.chains)
          => /\ result'[t] = UnknownChain
             /\ network' = network]_vars

C8_ConfigForcedAtStartup ==
    crate = "backend" =>
        /\ server = "serving" => once = "complete"
        /\ \A t \in Callers : lazy[t] = "none" /\ (pc[t] # "idle" => once = "complete")
        /\ once = "running" => lazy["main"] = "initializing" /\ pc["main"] = "line21"
        /\ once = "poisoned" => process = "aborted"
        /\ ~file.ok => server = "stopped" /\ \A t \in Callers : pc[t] = "idle"

\* a failed load ended the backend process during startup
C8_Witness ==
    /\ crate = "backend"
    /\ ~file.ok
    /\ once = "poisoned"
    /\ process = "aborted"
    /\ pc["main"] = "panicked"
    /\ server = "stopped"

C10_ConfigOnceImmutable ==
    /\ [](/\ initCount <= 1
          /\ CONFIG # {} <=> once = "complete"
          /\ CONFIG # {} => CONFIG = {file.value}
          /\ \A t1, t2 \in Callers :
                (pc[t1] = "returned" /\ pc[t2] = "returned" /\ call[t1] = call[t2]
                    /\ ~IsOp(t1, "get_entry_point_user_operation_payload"))
                => result[t1].value = result[t2].value)
    /\ [][CONFIG # {} => CONFIG' = CONFIG]_vars

\* one caller constructed CONFIG and got its answer while another was blocked on the Once
C10_Witness ==
    \E t1, t2 \in Callers :
        /\ t1 # t2
        /\ crate = "bundler"
        /\ initCount = 1
        /\ once = "complete"
        /\ pc[t1] = "returned" /\ IsOp(t1, "get_entrypoint_abi")
        /\ lazy[t2] = "waiting"

====
